---------------------------- MODULE Spec2Model ----------------------------
(***************************************************************************)
(* Model of the ticket acquisition run of dm-ticket (src/src/ticket.rs):   *)
(* DmTicket::run, buy, multiple_buy_attempts, wait_for_buy and             *)
(* pick_up_leaks.  One action per await point of the async code; the code  *)
(* that runs between two await points belongs to the action that ends at   *)
(* the second one.  Spec is the run; OrderSpec follows one order from the  *)
(* call of multiple_buy_attempts to submit_order, for the buy count and    *)
(* the attendee slots that the run itself does not depend on.              *)
(*                                                                         *)
(* u64 values (_run_time, min_time, retry_interval) are kept as integer    *)
(* representatives modulo 2^64: a representative n < 0 stands for the u64  *)
(* value 2^64 + n, so wrapping addition and subtraction are plain integer  *)
(* addition and subtraction, and unsigned comparison is U64Less.           *)
(***************************************************************************)
EXTENDS Integers, Sequences, FiniteSets, TLC

VARIABLES
    account,            \* self.account: the configuration of the run
    now,                \* wall clock (ms) as last read through Local::now()
    pc,                 \* await point the run is suspended at
    ctx,                \* caller of the burst in progress
    outcome,            \* how run() ended
    current_timestamp,  \* run: current_timestamp (line 430)
    wait_start,         \* wait_for_buy: start_timestamp parameter
    chan,               \* wait_for_buy: messages queued in the (s, r) channel
    sigReady,           \* wait_for_buy: the ctrl_c() future of this select is ready
    timerReady,         \* wait_for_buy: the sleep(interval) future of this select is ready
    attempt,            \* multiple_buy_attempts: loop variable
    run_time,           \* multiple_buy_attempts: _run_time
    min_time,           \* multiple_buy_attempts: min_time
    shortest,           \* smallest elapsed of the attempts of the burst so far
    retry_interval,     \* multiple_buy_attempts: retry_interval being slept
    nBuy,               \* buy() calls made by the burst in progress (or the last one)
    last,               \* result of the last buy() call of that burst
    ret,                \* result returned by that burst, NoRes while it runs
    leak_i,             \* pick_up_leaks: loop variable i, -1 before it is called
    leak_idx,           \* pick_up_leaks: idx of the tier the last burst was started for
    listing,            \* pick_up_leaks: sku_salable flags of perform_info while it is live
    act,                \* the request or event the last step consisted of
    cancelled,          \* a select of wait_for_buy resolved to ctrl_c
    busy,               \* a burst returned an error holding the SystemBusy text
    issued,             \* requests made and bursts started by the run so far
    order,              \* submit_order: the order whose attendee slots are marked
    target              \* the listing a burst is started from and the ids it is given

\* the state of run()
runVars == <<account, now, pc, ctx, outcome, current_timestamp, wait_start,
             chan, sigReady, timerReady, attempt, run_time, min_time, shortest,
             retry_interval, nBuy, last, ret, leak_i, leak_idx, listing, act,
             cancelled, busy, issued>>

vars == <<runVars, order, target>>

----------------------------------------------------------------------------
(* Bounds of the model and constants of the program *)

MaxRetry == 3          \* largest account.retry_times
MaxLeaks == 2          \* largest account.ticket.pick_up_leaks.times
MaxSkus == 2           \* longest perform.sku_list of a listing
SellStart == 600000    \* sell_start_timestamp of the catalog (ms)
Interval == 30000      \* account.interval (ms)
Lead == 2000           \* the non-zero account.early_submit_time (ms)
MaxNum == 2            \* largest account.ticket.num and pick_up_leaks.num
MaxViewers == 2        \* longest viewerList of an order

RETRY_INTERVAL_MS == 100
CycleMs == 5500
MinTimeInit == 9999
MinLeaksInterval == 1000
MsPerMinute == 60000

\* no attempt of the burst has been timed yet
NoElapsed == -1

\* Durations of one buy() call, as measured by start.elapsed() (ms)
Durations == {200, 3000, 10000}

\* How far the wall clock has moved when a countdown tick reads it
Advance == {Interval}

\* Wall clock at the moment run() decides between buying now and waiting
Clock0 == {SellStart - 61000, SellStart, SellStart + MsPerMinute}

----------------------------------------------------------------------------
(* Errors: an anyhow error is modelled by the marker texts its message     *)
(* holds, which is all the code ever asks of it (e.to_string().contains).  *)

ErrRec == [pe : BOOLEAN, sb : BOOLEAN, quit : BOOLEAN]

NoErr == [pe |-> FALSE, sb |-> FALSE, quit |-> FALSE]

\* anyhow!(DmApiError::SystemBusy): the message is the SystemBusy text alone
SystemBusyErr == [pe |-> FALSE, sb |-> TRUE, quit |-> FALSE]

\* anyhow!("CTRL-C, 退出程序...")
CtrlCErr == [pe |-> FALSE, sb |-> FALSE, quit |-> TRUE]

\* Errors of build_order (lines 106-116): a transport failure or the text of a
\* non-success ret list, which the server chooses: every mix of the two
\* DmApiError texts, and one that also holds "退出"
GatewayErrs ==
    {e \in ErrRec : ~e.quit} \cup {[pe |-> TRUE, sb |-> FALSE, quit |-> TRUE]}

\* Errors of submit_order (lines 191-212): a failure of the transport or of the
\* serialisation, whose text holds nothing the server chose
TransportErrs == {NoErr}

NoRes == [tag |-> "none", val |-> FALSE, err |-> NoErr]
OkRes(b) == [tag |-> "ok", val |-> b, err |-> NoErr]
ErrRes(e) == [tag |-> "err", val |-> FALSE, err |-> e]

ContainsProductExpired(e) == e.pe
ContainsSystemBusy(e) == e.sb
ContainsQuit(e) == e.quit

----------------------------------------------------------------------------
(* Pure pieces of the code *)

IsWrapped(n) == n < 0

\* a < b on u64 values given by their representatives
U64Less(a, b) ==
    IF IsWrapped(a) = IsWrapped(b) THEN a < b ELSE IsWrapped(b)

\* buy, lines 250-256: the error a failed build_order leaves buy() with
BuyBuildErr(e) == IF ContainsSystemBusy(e) THEN SystemBusyErr ELSE e

\* mutant: a successful submission does not end the loop
MbaReturnsOnOk_Never(res) == FALSE

\* multiple_buy_attempts, lines 308-312: Ok(res) returns from the burst
MbaReturnsOnOk(res) == res

\* mutant: the ProductExpired test of lines 316-320 is missing
MbaReturnsOnErr_BusyOnly(e) == ContainsSystemBusy(e)

\* multiple_buy_attempts, lines 313-324: Err(e) returns from the burst
MbaReturnsOnErr(e) == ContainsProductExpired(e) \/ ContainsSystemBusy(e)

\* multiple_buy_attempts, lines 328-330
NewMinTime(elapsed, mt) == IF U64Less(elapsed, mt) THEN elapsed ELSE mt

\* mutant: the fixed interval follows the odd attempts
RetryInterval_OddFixed(att, rt, mt) ==
    IF att % 2 = 1 THEN RETRY_INTERVAL_MS
    ELSE ((att + 2) \div 2) * CycleMs - rt - mt

\* multiple_buy_attempts, lines 332-336, as the integer the u64 expression
\* stands for before it is reduced modulo 2^64
RetryInterval(att, rt, mt) ==
    IF att % 2 = 0 THEN RETRY_INTERVAL_MS
    ELSE ((att + 1) \div 2) * CycleMs - rt - mt

\* the subtraction of line 335 leaves the range of u64
Underflows(att, rt, mt) ==
    att % 2 = 1 /\ ( ((att + 1) \div 2) * CycleMs - rt < 0
                     \/ ((att + 1) \div 2) * CycleMs - rt - mt < 0 )

\* run, lines 418-422
StartTimestamp(sell_start, request_time) ==
    IF request_time > 0 THEN request_time ELSE sell_start

\* mutant: the sale-open instant itself already counts as open
BuyNow_Ge(cur, start) == cur >= start

\* run, line 432
BuyNow(cur, start) == cur > start

\* mutant: >= where the code has >
PastGrace_Ge(cur, start, grace_minutes) ==
    (cur - start) >= grace_minutes * 60 * 1000

\* run, lines 438-440
PastGrace(cur, start, grace_minutes) ==
    (cur - start) > grace_minutes * 60 * 1000

\* mutant: the difference is taken the other way round
Ready_Swapped(start, millis, early) == millis - start <= early

\* wait_for_buy, lines 527-528
Ready(start, millis, early) == start - millis <= early

\* mutant: the priority lead is taken as seconds
SecondStart_Seconds(start, priority) == start + priority * 1000

\* run, line 486
SecondStart(start, priority) == start + priority * 60 * 1000

\* pick_up_leaks, lines 548-551
LeaksInterval(iv) == IF iv < MinLeaksInterval THEN MinLeaksInterval ELSE iv

\* mutant: any salable tier matches, whatever the configured grades
SkuMatches_AnyGrade(salable, idx, grades) == salable

\* pick_up_leaks, lines 565-567: sku is the sku_salable flag of tier idx (0-based)
SkuMatches(salable, idx, grades) ==
    salable /\ (grades = {} \/ (idx + 1) \in grades)

\* pick_up_leaks, lines 561-585: the idx the scan stops at, or -1
RECURSIVE ScanFrom(_, _, _)
ScanFrom(list, idx, grades) ==
    IF idx >= Len(list) THEN -1
    ELSE IF SkuMatches(list[idx + 1], idx, grades) THEN idx
    ELSE ScanFrom(list, idx + 1, grades)

FirstMatch(list, grades) == ScanFrom(list, 0, grades)

Listings == UNION {[1..n -> BOOLEAN] : n \in 0..MaxSkus}

StartTs == StartTimestamp(SellStart, account.request_time)

BurstPcs == {"buy_build", "buy_submit", "burst_sleep"}


----------------------------------------------------------------------------
(* Configurations and the initial state *)

Accounts ==
    [ retry_times : 0..MaxRetry,
      priority_purchase_time : {0, 1},
      grace_period_minutes : {0, 1},
      leaks_times : 0..MaxLeaks,
      grades : {{}, {2}},
      early_submit_time : {0, Lead},
      request_time : {0} ]

\* The tally of a run: build_order requests, listing queries of the poller,
\* bursts called by run and bursts called by pick_up_leaks.  It is kept in
\* the runs of CountSpec only, so that it does not multiply the states of
\* Spec; a run that is not tallied carries NoneIssued throughout.
NoneIssued ==
    [on |-> FALSE, attempts |-> 0, queries |-> 0, mains |-> 0, polled |-> 0]

\* the request or call f is added to tally t
Issue(t, f) == IF t.on THEN [t EXCEPT ![f] = @ + 1] ELSE t

\* no order is being followed
NoOrder ==
    [ origin |-> "run", ticket_num |-> 1, leaks_num |-> 0, buy_num |-> 0,
      received |-> <<>>, viewerList |-> <<>>, phase |-> "idle" ]

\* no burst target is being followed
NoTarget ==
    [ caller |-> "run", perform_id |-> "", sku_list |-> <<>>, grades |-> {},
      sku_idx |-> 0, item_id |-> "", sku_id |-> "", idx |-> -1,
      phase |-> "idle" ]

Init ==
    /\ account \in Accounts
    /\ now \in Clock0
    /\ order = NoOrder
    /\ target = NoTarget
    /\ pc = "identity"
    /\ ctx = "none"
    /\ outcome = "running"
    /\ current_timestamp = 0
    /\ wait_start = 0
    /\ chan = 0
    /\ sigReady = FALSE
    /\ timerReady = FALSE
    /\ attempt = 0
    /\ run_time = 0
    /\ min_time = MinTimeInit
    /\ shortest = NoElapsed
    /\ retry_interval = 0
    /\ nBuy = 0
    /\ last = NoRes
    /\ ret = NoRes
    /\ leak_i = -1
    /\ leak_idx = -1
    /\ listing = <<>>
    /\ act = "none"
    /\ cancelled = FALSE
    /\ busy = FALSE
    /\ issued = NoneIssued

----------------------------------------------------------------------------
(* Control transfers inside run(): each fixes pc, ctx, outcome, leak_i and  *)
(* the state of wait_for_buy                                               *)

NoWait == /\ chan' = 0
          /\ sigReady' = FALSE
          /\ timerReady' = FALSE
          /\ wait_start' = wait_start

\* run() returns
Finish(o) ==
    /\ pc' = "done"
    /\ outcome' = o
    /\ UNCHANGED <<ctx, leak_i>>
    /\ NoWait

\* pick_up_leaks is called, lines 546-558
EnterLeaks ==
    /\ leak_i' = 0
    /\ IF account.leaks_times > 0
         THEN pc' = "leaks_query" /\ outcome' = outcome
         ELSE pc' = "done" /\ outcome' = "ok"
    /\ ctx' = ctx
    /\ NoWait

\* wait_for_buy is called, lines 513-520
StartWait(start, c) ==
    /\ pc' = "select"
    /\ ctx' = c
    /\ wait_start' = start
    /\ chan' = 0
    /\ sigReady' = FALSE
    /\ timerReady' = FALSE
    /\ UNCHANGED <<outcome, leak_i>>

\* mutant: the immediate path falls through to the poller as the countdown
\* path does
AfterBuyItNow_FallsThrough(r) ==
    IF r.tag = "ok" /\ r.val THEN Finish("ok") ELSE EnterLeaks

\* run, lines 434-470: buy_it_now returned r
AfterBuyItNow(r) ==
    IF r.tag = "err" /\ ContainsProductExpired(r.err)
      THEN IF PastGrace(current_timestamp, StartTs, account.grace_period_minutes)
             THEN Finish("ok")
             ELSE EnterLeaks
    ELSE IF r.tag = "err" /\ ContainsSystemBusy(r.err)
      THEN /\ pc' = "helper"
           /\ UNCHANGED <<ctx, outcome, leak_i>>
           /\ NoWait
    ELSE Finish("ok")

\* run, lines 472-496: the first wait_for_buy returned r
AfterWait1(r) ==
    IF r.tag = "ok" /\ r.val THEN Finish("ok")
    ELSE IF r.tag = "err" /\ ContainsQuit(r.err) THEN Finish("ok")
    ELSE IF account.priority_purchase_time > 0
      THEN StartWait(SecondStart(StartTs, account.priority_purchase_time), "wait2")
    ELSE EnterLeaks

\* run, lines 488-496: the second wait_for_buy returned r
AfterWait2(r) ==
    IF r.tag = "ok" /\ r.val THEN Finish("ok") ELSE EnterLeaks

\* mutant: after a burst that did not succeed the scan is taken up again at
\* once, without the break and the sleep
AfterLeaksBurst_NoBreak(r) ==
    IF r.tag = "ok" /\ r.val
      THEN Finish("ok")
      ELSE /\ pc' = "leaks_query"
           /\ UNCHANGED <<ctx, outcome, leak_i>>
           /\ NoWait

\* pick_up_leaks, lines 571-589: the burst of this cycle returned r
AfterLeaksBurst(r) ==
    IF r.tag = "ok" /\ r.val
      THEN Finish("ok")
      ELSE /\ pc' = "leaks_sleep"
           /\ UNCHANGED <<ctx, outcome, leak_i>>
           /\ NoWait

After(c, r) ==
    CASE c = "now" -> AfterBuyItNow(r)
      [] c = "wait1" -> AfterWait1(r)
      [] c = "wait2" -> AfterWait2(r)
      [] c = "leaks" -> AfterLeaksBurst(r)

\* the locals of multiple_buy_attempts as they are when the loop is entered
\* (lines 302-305) and, not being live any more, once it has returned
FreshLocals ==
    /\ attempt' = 0
    /\ run_time' = 0
    /\ min_time' = MinTimeInit
    /\ shortest' = NoElapsed
    /\ retry_interval' = 0

\* multiple_buy_attempts returns r to its caller
Return(r) ==
    /\ ret' = r
    /\ FreshLocals
    /\ busy' = (busy \/ (r.tag = "err" /\ ContainsSystemBusy(r.err)))
    /\ After(ctx, r)

\* multiple_buy_attempts is called from context c, lines 298-305
StartBurst(c) ==
    /\ FreshLocals
    /\ nBuy' = 0
    /\ last' = NoRes
    /\ busy' = busy
    /\ IF account.retry_times > 0
         THEN /\ pc' = "buy_build"
              /\ ctx' = c
              /\ ret' = NoRes
              /\ UNCHANGED <<outcome, leak_i>>
              /\ NoWait
         ELSE /\ ret' = OkRes(FALSE)
              /\ After(c, OkRes(FALSE))

----------------------------------------------------------------------------
(* The burst: multiple_buy_attempts and buy *)

\* multiple_buy_attempts, lines 326-340: the attempt took `elapsed` ms and did
\* not end the burst.  When line 335 underflows, a build with overflow checks
\* panics and a build without them goes on with the wrapped value.
AfterAttempt(elapsed) ==
    LET rt1 == run_time + elapsed
        mt1 == NewMinTime(elapsed, min_time)
        ri  == RetryInterval(attempt, rt1, mt1)
    IN  /\ min_time' = mt1
        /\ shortest' = IF shortest = NoElapsed \/ elapsed < shortest
                       THEN elapsed ELSE shortest
        /\ attempt' = attempt
        /\ \/ /\ Underflows(attempt, rt1, mt1)
              /\ pc' = "panic"
              /\ outcome' = "overflow_panic"
              /\ run_time' = rt1
              /\ retry_interval' = retry_interval
           \/ /\ pc' = "burst_sleep"
              /\ outcome' = outcome
              /\ retry_interval' = ri
              /\ run_time' = rt1 + ri
        /\ UNCHANGED <<ctx, leak_i, ret, busy>>
        /\ NoWait

\* multiple_buy_attempts, lines 307-325: buy() returned r
BuyResult(r) ==
    /\ last' = r
    /\ IF r.tag = "ok" /\ MbaReturnsOnOk(r.val)
         THEN Return(OkRes(TRUE))
       ELSE IF r.tag = "err" /\ MbaReturnsOnErr(r.err)
         THEN Return(r)
       ELSE \E d \in Durations : AfterAttempt(d)

\* buy, lines 245-257: the build_order request of attempt `attempt`
BuildOrder ==
    /\ pc = "buy_build"
    /\ act' = "build"
    /\ nBuy' = nBuy + 1
    /\ issued' = Issue(issued, "attempts")
    /\ \/ /\ pc' = "buy_submit"
          /\ UNCHANGED <<ctx, outcome, leak_i, attempt, run_time, min_time, shortest,
                         retry_interval, last, ret, busy>>
          /\ NoWait
       \/ \E e \in GatewayErrs : BuyResult(ErrRes(BuyBuildErr(e)))
    /\ UNCHANGED <<account, order, target, now, current_timestamp, leak_idx, cancelled>>
    /\ listing' = IF pc' \in BurstPcs THEN listing ELSE <<>>

\* buy, lines 259-278: the submit_order request
SubmitOrder ==
    /\ pc = "buy_submit"
    /\ act' = "submit"
    /\ nBuy' = nBuy
    /\ \/ \E ok \in BOOLEAN : BuyResult(OkRes(ok))
       \/ \E e \in TransportErrs : BuyResult(ErrRes(e))
    /\ UNCHANGED <<account, order, target, issued, now, current_timestamp, leak_idx, cancelled>>
    /\ listing' = IF pc' \in BurstPcs THEN listing ELSE <<>>

\* mutant: the loop runs over 0..=retry_times
BurstSleep_Inclusive ==
    /\ pc = "burst_sleep"
    /\ ~IsWrapped(retry_interval)
    /\ act' = "sleep"
    /\ IF attempt + 1 <= account.retry_times
         THEN /\ pc' = "buy_build"
              /\ attempt' = attempt + 1
              /\ UNCHANGED <<ctx, outcome, leak_i, ret, busy, run_time, min_time, shortest,
                             retry_interval>>
              /\ NoWait
         ELSE Return(OkRes(FALSE))
    /\ UNCHANGED <<account, order, target, issued, now, current_timestamp, leak_idx, cancelled, nBuy, last>>
    /\ listing' = IF pc' \in BurstPcs THEN listing ELSE <<>>

\* multiple_buy_attempts, lines 340-342: the sleep ends and the loop goes on.
\* A wrapped retry_interval is a sleep of about 2^64 ms, which does not end.
BurstSleep ==
    /\ pc = "burst_sleep"
    /\ ~IsWrapped(retry_interval)
    /\ act' = "sleep"
    /\ IF attempt + 1 < account.retry_times
         THEN /\ pc' = "buy_build"
              /\ attempt' = attempt + 1
              /\ UNCHANGED <<ctx, outcome, leak_i, ret, busy, run_time, min_time, shortest,
                             retry_interval>>
              /\ NoWait
         ELSE Return(OkRes(FALSE))
    /\ UNCHANGED <<account, order, target, issued, now, current_timestamp, leak_idx, cancelled, nBuy, last>>
    /\ listing' = IF pc' \in BurstPcs THEN listing ELSE <<>>

----------------------------------------------------------------------------
(* The countdown: wait_for_buy *)

\* SIGINT is delivered while the select waits
CtrlC ==
    /\ pc = "select"
    /\ ~sigReady
    /\ sigReady' = TRUE
    /\ act' = "signal"
    /\ UNCHANGED <<account, order, target, issued, listing, now, pc, ctx, outcome, current_timestamp, wait_start,
                   chan, timerReady, attempt, run_time, min_time, shortest, retry_interval,
                   nBuy, last, ret, leak_i, leak_idx, cancelled, busy>>

\* the sleep(interval) of this select runs out; with a message queued the
\* select resolves on its first poll, before a sleep created then can end
TimerFires ==
    /\ pc = "select"
    /\ ~timerReady
    /\ chan = 0
    /\ timerReady' = TRUE
    /\ act' = "timer"
    /\ UNCHANGED <<account, order, target, issued, listing, now, pc, ctx, outcome, current_timestamp, wait_start,
                   chan, sigReady, attempt, run_time, min_time, shortest, retry_interval,
                   nBuy, last, ret, leak_i, leak_idx, cancelled, busy>>

\* lines 521-523: the select resolves to the ctrl_c branch
SelectCtrlC ==
    /\ pc = "select"
    /\ sigReady
    /\ cancelled' = TRUE
    /\ act' = "cancel"
    /\ After(ctx, ErrRes(CtrlCErr))
    /\ UNCHANGED <<account, order, target, issued, listing, now, current_timestamp, attempt, run_time, min_time, shortest,
                   retry_interval, nBuy, last, ret, leak_idx, busy>>

\* mutant: the countdown loop is a task of its own that keeps ticking while
\* the burst it started runs
SelectTick_Detached ==
    /\ pc \in {"select"} \cup BurstPcs
    /\ ctx \in {"wait1", "wait2"}
    /\ timerReady \/ pc \in BurstPcs
    /\ \E d \in Advance :
         /\ now' = now + d
         /\ chan' = IF Ready(wait_start, now + d, account.early_submit_time)
                      THEN 1 ELSE chan
    /\ sigReady' = FALSE
    /\ timerReady' = FALSE
    /\ act' = "tick"
    /\ UNCHANGED <<account, order, target, issued, listing, pc, ctx, outcome, current_timestamp, wait_start,
                   attempt, run_time, min_time, shortest, retry_interval, nBuy, last, ret,
                   leak_i, leak_idx, cancelled, busy>>

\* lines 524-536: the select resolves to the sleep branch.  The ctrl_c future
\* of this select is dropped and the next select listens anew.
SelectTick ==
    /\ pc = "select"
    /\ timerReady
    /\ \E d \in Advance :
         /\ now' = now + d
         /\ chan' = IF Ready(wait_start, now + d, account.early_submit_time)
                      THEN chan + 1 ELSE chan
    /\ sigReady' = FALSE
    /\ timerReady' = FALSE
    /\ act' = "tick"
    /\ UNCHANGED <<account, order, target, issued, listing, pc, ctx, outcome, current_timestamp, wait_start,
                   attempt, run_time, min_time, shortest, retry_interval, nBuy, last, ret,
                   leak_i, leak_idx, cancelled, busy>>

\* lines 538-540: the select resolves to the recv branch
SelectRecv ==
    /\ pc = "select"
    /\ chan > 0
    /\ act' = "recv"
    /\ issued' = Issue(issued, "mains")
    /\ StartBurst(ctx)
    /\ UNCHANGED <<account, order, target, listing, now, current_timestamp, leak_idx, cancelled>>

\* tokio::select! without `biased`: any ready branch may be the one taken
Select == SelectCtrlC \/ SelectTick \/ SelectRecv

----------------------------------------------------------------------------
(* The inventory poller: pick_up_leaks *)

\* lines 558-587: the listing query of cycle leak_i and the scan of its result
LeaksQuery ==
    /\ pc = "leaks_query"
    /\ act' = "listing"
    /\ \/ /\ pc' = "leaks_sleep"
          /\ leak_idx' = leak_idx
          /\ listing' = <<>>
          /\ issued' = Issue(issued, "queries")
          /\ UNCHANGED <<ctx, outcome, leak_i, attempt, run_time, min_time, shortest,
                         retry_interval, nBuy, last, ret, busy>>
          /\ NoWait
       \/ \E list \in Listings :
            LET m == FirstMatch(list, account.grades)
            IN  IF m >= 0
                  THEN /\ leak_idx' = m
                       /\ issued' = Issue(Issue(issued, "queries"), "polled")
                       /\ StartBurst("leaks")
                       /\ listing' = IF pc' \in BurstPcs THEN list ELSE <<>>
                  ELSE /\ pc' = "leaks_sleep"
                       /\ leak_idx' = leak_idx
                       /\ listing' = <<>>
                       /\ issued' = Issue(issued, "queries")
                       /\ UNCHANGED <<ctx, outcome, leak_i, attempt, run_time,
                                      min_time, shortest, retry_interval, nBuy, last, ret,
                                      busy>>
                       /\ NoWait
    /\ UNCHANGED <<account, order, target, now, current_timestamp, cancelled>>

\* lines 589-592: the interval sleep ends
LeaksSleep ==
    /\ pc = "leaks_sleep"
    /\ act' = "leaks_sleep"
    /\ leak_i' = leak_i + 1
    /\ IF leak_i + 1 < account.leaks_times
         THEN pc' = "leaks_query" /\ outcome' = outcome
         ELSE pc' = "done" /\ outcome' = "ok"
    /\ UNCHANGED <<account, order, target, issued, listing, now, ctx, current_timestamp, wait_start, chan,
                   sigReady, timerReady, attempt, run_time, min_time, shortest,
                   retry_interval, nBuy, last, ret, leak_idx, cancelled, busy>>

----------------------------------------------------------------------------
(* run(): resolution, decision and the re-authentication helper *)

\* mutant: a failed get_user_info is logged and the run goes on
GetUserInfo_GoesOn ==
    /\ pc = "identity"
    /\ act' = "identity"
    /\ pc' = "catalog"
    /\ outcome' \in {outcome, "ok"}
    /\ UNCHANGED <<account, order, target, issued, listing, now, ctx, current_timestamp, wait_start, chan,
                   sigReady, timerReady, attempt, run_time, min_time, shortest,
                   retry_interval, nBuy, last, ret, leak_i, leak_idx, cancelled,
                   busy>>

\* lines 348-359: get_user_info fails and run returns Ok(()), or it succeeds
GetUserInfo ==
    /\ pc = "identity"
    /\ act' = "identity"
    /\ \/ pc' = "catalog" /\ outcome' = outcome
       \/ pc' = "done" /\ outcome' = "ok"
    /\ UNCHANGED <<account, order, target, issued, listing, now, ctx, current_timestamp, wait_start, chan,
                   sigReady, timerReady, attempt, run_time, min_time, shortest,
                   retry_interval, nBuy, last, ret, leak_i, leak_idx, cancelled,
                   busy>>

\* lines 366-397: get_ticket_info succeeds and the configured session is in
\* the catalog; or it fails and run returns the error; or it panics in the
\* unwrap of line 80, or perform_bases[perfomr_idx].performs[0] does (lines
\* 381-397)
GetTicketInfo ==
    /\ pc = "catalog"
    /\ act' = "catalog"
    /\ \/ pc' = "session" /\ outcome' = outcome
       \/ pc' = "done" /\ outcome' = "err"
       \/ pc' = "panic" /\ outcome' = "resolve_panic"
    /\ UNCHANGED <<account, order, target, issued, listing, now, ctx, current_timestamp, wait_start, chan,
                   sigReady, timerReady, attempt, run_time, min_time, shortest,
                   retry_interval, nBuy, last, ret, leak_i, leak_idx, cancelled,
                   busy>>

\* lines 400-434 and 471-472: the session request, then the decision.  The
\* request or the parse of line 416 fails and run returns the error; or the
\* unwrap of line 236 or sku_list[sku_idx] (lines 401-403) panics; or the
\* tier is resolved and the clock is read.
GetPerformInfo ==
    /\ pc = "session"
    /\ act' = "session"
    /\ \/ /\ Finish("err")
          /\ issued' = issued
          /\ UNCHANGED <<current_timestamp, attempt, run_time, min_time, shortest,
                         retry_interval, nBuy, last, ret, busy>>
       \/ /\ pc' = "panic"
          /\ outcome' = "resolve_panic"
          /\ issued' = issued
          /\ NoWait
          /\ UNCHANGED <<ctx, leak_i, current_timestamp, attempt, run_time,
                         min_time, shortest, retry_interval, nBuy, last, ret, busy>>
       \/ /\ current_timestamp' = now
          /\ issued' = IF BuyNow(now, StartTs)
                         THEN Issue(issued, "mains") ELSE issued
          /\ IF BuyNow(now, StartTs)
               THEN StartBurst("now")
               ELSE /\ StartWait(StartTs, "wait1")
                    /\ UNCHANGED <<attempt, run_time, min_time, shortest, retry_interval,
                                   nBuy, last, ret, busy>>
    /\ UNCHANGED <<account, order, target, listing, now, leak_idx, cancelled>>

\* mutant: line 466 is not commented out, the helper is followed by a new
\* immediate burst
Helper_ThenRetry ==
    /\ pc = "helper"
    /\ act' = "helper"
    /\ StartBurst("now")
    /\ UNCHANGED <<account, order, target, issued, listing, now, current_timestamp, leak_idx, cancelled>>

\* lines 450-467: the helper process is started with args[1] as login id.
\* It runs and exits, with success or not, and run returns Ok(()); or it
\* cannot be started and the expect of line 457 panics.
Helper ==
    /\ pc = "helper"
    /\ act' = "helper"
    /\ \/ Finish("ok")
       \/ /\ pc' = "panic"
          /\ outcome' = "helper_panic"
          /\ UNCHANGED <<ctx, leak_i>>
          /\ NoWait
    /\ UNCHANGED <<account, order, target, issued, listing, now, current_timestamp, attempt, run_time, min_time, shortest,
                   retry_interval, nBuy, last, ret, leak_idx, cancelled, busy>>

----------------------------------------------------------------------------

Next ==
    \/ GetUserInfo
    \/ GetTicketInfo
    \/ GetPerformInfo
    \/ BuildOrder
    \/ SubmitOrder
    \/ BurstSleep
    \/ CtrlC
    \/ TimerFires
    \/ Select
    \/ LeaksQuery
    \/ LeaksSleep
    \/ Helper

Spec == Init /\ [][Next]_vars

\* the configurations of the tallied runs: every burst size, poll count and
\* priority lead, with the other settings fixed
CountedAccounts ==
    {a \in Accounts : /\ a.grace_period_minutes = 1
                       /\ a.grades = {}
                       /\ a.early_submit_time = 0}

\* Init with the tally switched on
InitCount ==
    /\ account \in CountedAccounts
    /\ now \in Clock0
    /\ order = NoOrder
    /\ target = NoTarget
    /\ issued = [NoneIssued EXCEPT !.on = TRUE]
    /\ pc = "identity"
    /\ ctx = "none"
    /\ outcome = "running"
    /\ current_timestamp = 0
    /\ wait_start = 0
    /\ chan = 0
    /\ sigReady = FALSE
    /\ timerReady = FALSE
    /\ attempt = 0
    /\ run_time = 0
    /\ min_time = MinTimeInit
    /\ shortest = NoElapsed
    /\ retry_interval = 0
    /\ nBuy = 0
    /\ last = NoRes
    /\ ret = NoRes
    /\ leak_i = -1
    /\ leak_idx = -1
    /\ listing = <<>>
    /\ act = "none"
    /\ cancelled = FALSE
    /\ busy = FALSE

CountSpec == InitCount /\ [][Next]_vars

----------------------------------------------------------------------------
(* The attendee slots of one order: the buy count a burst asks for and the *)
(* slots submit_order marks, followed for one order from the call of      *)
(* multiple_buy_attempts to the submission                                *)

\* the buy_num argument None
NoNum == -1

\* pick_up_leaks, lines 553-556
LeaksNum(cfg_num, ticket_num) == IF cfg_num = 0 THEN ticket_num ELSE cfg_num

\* multiple_buy_attempts, lines 298-301
BuyNumOf(arg, ticket_num) == IF arg = NoNum THEN ticket_num ELSE arg

\* the argument the caller passes: pick_up_leaks line 575, wait_for_buy line
\* 539 and buy_it_now line 503
BuyNumArg(origin, cfg_num, ticket_num) ==
    IF origin = "leaks" THEN LeaksNum(cfg_num, ticket_num) ELSE NoNum

\* submit_order, line 131: the count of slots to mark
SubmitNum(ticket_num) == ticket_num

\* submit_order, lines 136-143: indexing the JSON array past its end panics
MarkPanics(list, num) == list # <<>> /\ num > Len(list)

\* submit_order, lines 136-143: isUsed of the slots as sent
MarkViewers(list, num) ==
    [i \in 1..Len(list) |-> IF i <= num THEN TRUE ELSE list[i]]

\* isUsed flags of the viewerList an order is built with
ViewerLists == UNION {[1..n -> BOOLEAN] : n \in 0..MaxViewers}

\* run() stands aside while one order or one burst target is followed
RunAside ==
    /\ account = [ retry_times |-> 1, priority_purchase_time |-> 0,
                   grace_period_minutes |-> 0, leaks_times |-> 1,
                   grades |-> {}, early_submit_time |-> 0, request_time |-> 0 ]
    /\ now = SellStart
    /\ pc = "buy_build"
    /\ ctx = "none"
    /\ outcome = "running"
    /\ current_timestamp = 0
    /\ wait_start = 0
    /\ chan = 0
    /\ sigReady = FALSE
    /\ timerReady = FALSE
    /\ attempt = 0
    /\ run_time = 0
    /\ min_time = MinTimeInit
    /\ shortest = NoElapsed
    /\ retry_interval = 0
    /\ nBuy = 0
    /\ last = NoRes
    /\ ret = NoRes
    /\ leak_i = -1
    /\ leak_idx = -1
    /\ listing = <<>>
    /\ act = "none"
    /\ cancelled = FALSE
    /\ busy = FALSE
    /\ issued = NoneIssued

\* a burst is called by run (buy_it_now, wait_for_buy) or by pick_up_leaks
InitOrder ==
    /\ order \in [ origin : {"run", "leaks"}, ticket_num : 1..MaxNum,
                    leaks_num : 0..MaxNum, buy_num : {0}, received : {<<>>},
                    viewerList : {<<>>}, phase : {"called"} ]
    /\ target = NoTarget
    /\ RunAside


\* build_order, lines 91-116, called from buy with the burst's buy_num: the
\* order comes back with its viewerList
OrderBuilt ==
    /\ order.phase = "called"
    /\ \E list \in ViewerLists :
         order' = [order EXCEPT
                     !.buy_num = BuyNumOf(BuyNumArg(order.origin, order.leaks_num,
                                                    order.ticket_num),
                                          order.ticket_num),
                     !.received = list,
                     !.viewerList = list,
                     !.phase = "built"]
    /\ UNCHANGED <<runVars, target>>

\* submit_order, lines 128-163: the slots are marked and the order is sent
OrderSubmitted ==
    /\ order.phase = "built"
    /\ LET num == SubmitNum(order.ticket_num)
       IN  IF MarkPanics(order.viewerList, num)
             THEN order' = [order EXCEPT !.phase = "panic"]
             ELSE order' = [order EXCEPT
                              !.viewerList = MarkViewers(order.viewerList, num),
                              !.phase = "submitted"]
    /\ UNCHANGED <<runVars, target>>

NextOrder == OrderBuilt \/ OrderSubmitted

OrderSpec == InitOrder /\ [][NextOrder]_vars

----------------------------------------------------------------------------
(* The target of a burst: the item_id and sku_id arguments run and         *)
(* pick_up_leaks give multiple_buy_attempts, followed for one listing      *)

\* values of the id fields of a PerformInfo
Ids == {"id1", "id2"}

\* the fields of a sku_list entry the code reads
Skus == [sku_salable : BOOLEAN, item_id : Ids, sku_id : Ids]

SkuLists == UNION {[1..n -> Skus] : n \in 0..MaxSkus}

\* the sku_salable flags of a sku_list, as the scan of lines 561-567 reads them
Salable(sku_list) == [i \in 1..Len(sku_list) |-> sku_list[i].sku_salable]

\* run, lines 401-403: the ids resolved for tier sku_idx (0-based)
RunTarget(sku_list, sku_idx) ==
    [ item_id |-> sku_list[sku_idx + 1].item_id,
      sku_id |-> sku_list[sku_idx + 1].sku_id ]

\* pick_up_leaks, lines 572-576: the ids passed for the matched tier idx
LeaksTarget(perform_id, sku_list, idx) ==
    [ item_id |-> perform_id,
      sku_id |-> sku_list[idx + 1].sku_id ]

\* get_perform_info has returned a listing, to run (line 400) or to a cycle
\* of pick_up_leaks (line 560)
InitTarget ==
    /\ target \in [ caller : {"run", "leaks"}, perform_id : Ids,
                     sku_list : SkuLists, grades : {{}, {2}},
                     sku_idx : 0..(MaxSkus - 1), item_id : {""}, sku_id : {""},
                     idx : {-1}, phase : {"listed"} ]
    /\ order = NoOrder
    /\ RunAside

\* run, lines 401-403 and 434/472: the configured tier is looked up and the
\* main burst is given its ids; a tier the listing does not hold panics
SessionTarget ==
    /\ target.caller = "run"
    /\ target.phase = "listed"
    /\ IF target.sku_idx < Len(target.sku_list)
         THEN LET t == RunTarget(target.sku_list, target.sku_idx)
              IN  target' = [target EXCEPT !.item_id = t.item_id,
                                           !.sku_id = t.sku_id,
                                           !.idx = target.sku_idx,
                                           !.phase = "burst"]
         ELSE target' = [target EXCEPT !.phase = "panic"]
    /\ UNCHANGED <<runVars, order>>

\* pick_up_leaks, lines 561-577: the scan, and the burst for the tier it
\* stops at
PollTarget ==
    /\ target.caller = "leaks"
    /\ target.phase = "listed"
    /\ LET m == FirstMatch(Salable(target.sku_list), target.grades)
       IN  IF m >= 0
             THEN LET t == LeaksTarget(target.perform_id, target.sku_list, m)
                  IN  target' = [target EXCEPT !.item_id = t.item_id,
                                               !.sku_id = t.sku_id,
                                               !.idx = m,
                                               !.phase = "burst"]
             ELSE target' = [target EXCEPT !.phase = "nomatch"]
    /\ UNCHANGED <<runVars, order>>

NextTarget == SessionTarget \/ PollTarget

TargetSpec == InitTarget /\ [][NextTarget]_vars


TypeOK ==
    /\ account \in Accounts
    /\ pc \in {"identity", "catalog", "session", "select", "buy_build", "buy_submit",
               "burst_sleep", "leaks_query", "leaks_sleep", "helper", "panic", "done"}
    /\ ctx \in {"none", "now", "wait1", "wait2", "leaks"}
    /\ chan \in 0..1
    /\ attempt \in 0..MaxRetry
    /\ nBuy \in 0..MaxRetry
    /\ leak_i \in -1..MaxLeaks

----------------------------------------------------------------------------
(* Properties *)

Max0(n) == IF n < 0 THEN 0 ELSE n

MainCtx == {"now", "wait1", "wait2"}

IsProductExpired(r) == r.tag = "err" /\ r.err.pe

\* a buy() call that failed and was neither ProductExpired nor SystemBusy
IsOtherFailure(r) ==
    \/ r = OkRes(FALSE)
    \/ r.tag = "err" /\ ~r.err.pe /\ ~r.err.sb

\* C1: the submission that succeeds makes the burst return true in the same
\* step, and while that burst's result stands as true no build-order or
\* submit-order request is issued.
C1_FirstSuccessEndsBurst ==
    [][ /\ (act' = "submit" /\ last' = OkRes(TRUE))
            => (ret' = OkRes(TRUE) /\ pc' \notin BurstPcs)
        /\ (ret = OkRes(TRUE)) => (act' \notin {"build", "submit"}) ]_vars

\* a burst returned true on its second attempt, after a failed first one
C1_Witness ==
    /\ last = OkRes(TRUE)
    /\ ret = OkRes(TRUE)
    /\ nBuy = 2
    /\ act = "submit"

\* C2: once a burst has returned a SystemBusy error, the run issues no further
\* purchase request, no countdown tick and no inventory-poll listing query.
C2_SystemBusyAbortsRun ==
    [][ busy => act' \notin {"build", "submit", "tick", "listing"} ]_vars

\* C3: on an odd attempt index the wait is the raw difference clamped at zero,
\* and computing it never fails.  (run_time already holds the wait, so the
\* cumulative elapsed time the wait was computed from is run_time - retry_interval.)
C3_OddIntervalClamped ==
    /\ outcome # "overflow_panic"
    /\ (pc = "burst_sleep" /\ attempt % 2 = 1)
         => retry_interval =
              Max0(((attempt + 1) \div 2) * CycleMs
                     - (run_time - retry_interval) - min_time)

\* C4: while the cancellation signal is ready together with the timer or the
\* readiness message, the select does not take the tick or the recv branch.
C4_CancellationHasPriority ==
    [][ (pc = "select" /\ sigReady /\ (timerReady \/ chan > 0))
          => act' \notin {"tick", "recv"} ]_vars

C6_CancellationEndsRun ==
    [][ cancelled => act' \notin {"build", "submit", "listing"} ]_vars

C8_AllOtherBurstReturnsFalse ==
    ((ret # NoRes \/ pc = "panic") /\ IsOtherFailure(last))
      => (nBuy = account.retry_times /\ ret = OkRes(FALSE))

\* C9: an attempt classified ProductExpired is the last of its burst: the
\* burst has returned that very error, and is neither waiting nor attempting;
\* an Other failure leaves the burst running or, at the end, returning false.
C9_ProductExpiredEndsBurst ==
    /\ IsProductExpired(last) => (ret = last /\ pc \notin BurstPcs \cup {"panic"})
    /\ IsOtherFailure(last) => ret \in {NoRes, OkRes(FALSE)}

\* a burst of size 2 ended on its first attempt with the ProductExpired error
C9_Witness ==
    /\ IsProductExpired(last)
    /\ ret = last
    /\ nBuy = 1
    /\ account.retry_times = 2

\* C10: a tick queues the readiness message iff the clock it reads is at or
\* past wait_start - early_submit_time, and every request of a countdown burst
\* is issued with the clock at or past that instant.
C10_ReadyAtThreshold ==
    [][ /\ (act' = "tick")
            => ((chan' > chan) <=> (now' >= wait_start - account.early_submit_time))
        /\ (act' \in {"recv", "build", "submit"} /\ ctx \in {"wait1", "wait2"})
            => now >= wait_start - account.early_submit_time ]_vars

\* a countdown burst is attempting before sale-open, inside the lead time,
\* after more than one tick
C10_Witness ==
    /\ ctx = "wait1"
    /\ act = "build"
    /\ now < wait_start
    /\ now >= wait_start - account.early_submit_time
    /\ now - 2 * Interval \in Clock0

\* C11: the decision step sends the run to the countdown iff the clock it read
\* is at or before the sale-open instant, and to the immediate burst iff the
\* clock is past it; a countdown tick happens only in a run whose decision
\* read a clock at or before sale-open; and an immediate burst whose first
\* attempt succeeded has ended the run (one purchase attempt, no poller).
C11_DecisionByStrictlyLater ==
    [][ /\ (act' = "session" /\ outcome' = "running")
            => /\ (pc' = "select" /\ ctx' = "wait1") <=> (now <= StartTs)
               /\ (ctx' = "now" /\ pc' = "buy_build" /\ nBuy' = 0)
                    <=> (now > StartTs /\ account.retry_times > 0)
        /\ (act' = "tick") => (current_timestamp <= StartTs)
        /\ (ctx' = "now" /\ nBuy' = 1 /\ last' = OkRes(TRUE))
            => (pc' = "done" /\ outcome' = "ok" /\ leak_i' = -1) ]_vars

\* the clock read at the decision was past sale-open, and the first attempt
\* of the immediate burst succeeded
C11_Witness ==
    /\ current_timestamp > StartTs
    /\ ctx = "now"
    /\ nBuy = 1
    /\ last = OkRes(TRUE)
    /\ act = "submit"
    /\ pc = "done"

\* C12: while a burst is between its first attempt and its return, the only
\* steps taken are that burst's own requests and sleeps (so no countdown
\* tick, no listing query, no poller sleep and no start of another burst);
\* countdown steps are taken only while the countdown waits, and poller
\* steps only while the poller is between bursts.
C12_OneActivityAtATime ==
    [][ /\ (pc \in BurstPcs) => (act' \in {"build", "submit", "sleep"})
        /\ (act' \in {"tick", "timer", "recv", "cancel"}) => (pc = "select")
        /\ (act' \in {"listing", "leaks_sleep"})
            => (pc \in {"leaks_query", "leaks_sleep"})
        /\ (pc' = "buy_build" /\ nBuy' = 0) => (pc \notin BurstPcs) ]_vars

\* the burst of the second countdown is in its second attempt, the clock
\* having been advanced by ticks since the decision
C12_Witness ==
    /\ ctx = "wait2"
    /\ pc = "buy_submit"
    /\ attempt = 1
    /\ now > current_timestamp
    /\ timerReady = FALSE

\* C13: a poller burst in progress targets a tier of the listing of its
\* cycle that is salable and, when the grades set is not empty, whose 1-based
\* position is in the set; every earlier tier is unsalable or outside a
\* non-empty set, so with an empty set the target is the first salable tier.
C13_BurstOnlyOnEligibleTier ==
    (ctx = "leaks" /\ pc \in BurstPcs)
        => LET k == leak_idx + 1
               Eligible(j) == account.grades = {} \/ j \in account.grades
           IN  /\ k \in 1..Len(listing)
               /\ listing[k]
               /\ Eligible(k)
               /\ \A j \in 1..(k - 1) : ~(listing[j] /\ Eligible(j))

\* with grades = {2} the burst runs for tier 2 although tier 1 is salable too
C13_Witness ==
    /\ ctx = "leaks"
    /\ pc = "buy_submit"
    /\ account.grades = {2}
    /\ listing = <<TRUE, TRUE>>
    /\ leak_idx = 1

\* C14: a poller burst is started only by the listing query of its cycle, and
\* a listing query is issued only on entry to the poller or right after the
\* interval sleep that ended the cycle before, so a cycle holds at most one
\* burst; a poller burst that returns true ends the run in that step, and one
\* that returns anything else leads to the interval sleep of its cycle.
C14_OneBurstPerCycle ==
    [][ /\ (ctx' = "leaks" /\ pc' = "buy_build" /\ nBuy' = 0)
            => (act' = "listing" /\ pc = "leaks_query")
        /\ (act' = "listing") => (pc' # "leaks_query")
        /\ (pc' = "leaks_query")
            => (act' = "leaks_sleep" \/ (leak_i = -1 /\ leak_i' = 0))
        /\ (ctx = "leaks" /\ pc \in BurstPcs /\ ret' = OkRes(TRUE))
            => (pc' = "done" /\ outcome' = "ok")
        /\ (ctx = "leaks" /\ pc \in BurstPcs /\ ret' \notin {NoRes, OkRes(TRUE)})
            => (pc' = "leaks_sleep" /\ leak_i' = leak_i)
        /\ (ctx = "leaks" /\ ret = OkRes(TRUE)) => (act' # "listing") ]_vars

\* the burst of the second poll cycle is under way, the first cycle having
\* ended with its sleep
C14_Witness ==
    /\ ctx = "leaks"
    /\ leak_i = 1
    /\ pc = "buy_submit"
    /\ ret = NoRes
    /\ Len(listing) = 2

\* C15: the second countdown is entered only from the return of the first
\* one, only with priority_purchase_time > 0 and a first result that is
\* neither true nor the cancellation error, and it is started towards the
\* sale-open instant of the first plus the lead in minutes; it and its burst
\* are left only for the end of the run or for the poller, never for a
\* countdown again, the first countdown is entered
\* only from the decision, and without a lead the first countdown is left
\* for the end of the run or for the poller.
C15_SecondCountdownOnce ==
    [][ /\ (ctx' = "wait2" /\ ctx # "wait2")
            => /\ ctx = "wait1"
               /\ current_timestamp <= StartTs
               /\ account.priority_purchase_time > 0
               /\ ret' # OkRes(TRUE)
               /\ ~cancelled'
               /\ pc' = "select"
               /\ chan' = 0
               /\ wait_start'
                    = StartTs + account.priority_purchase_time * MsPerMinute
        /\ (ctx = "wait2") => (ctx' \in {"wait2", "leaks"})
        /\ (ctx = "wait2" /\ pc \in BurstPcs \cup {"select"}
                /\ pc' \notin BurstPcs \cup {"select", "panic"})
            => (pc' \in {"done", "leaks_query"})
        /\ (ctx' = "wait1" /\ ctx # "wait1") => (act' = "session")
        /\ (account.priority_purchase_time = 0) => (ctx' # "wait2") ]_vars

\* the burst of the second countdown is attempting, at or past the second
\* start instant
C15_Witness ==
    /\ ctx = "wait2"
    /\ pc = "buy_build"
    /\ nBuy = 1
    /\ wait_start = SellStart + MsPerMinute
    /\ now >= wait_start

\* get_user_info, get_ticket_info, get_perform_info or the lookup of the
\* configured session or tier in their results has just failed
ResolutionFailed ==
    \/ act = "identity" /\ outcome # "running"
    \/ act \in {"catalog", "session"} /\ outcome \in {"err", "resolve_panic"}

\* C16: the step in which identity, catalog or session/tier resolution fails
\* ends the run, with no countdown entered, no burst started and the poller
\* not called; and from a state a failed resolution left, no countdown tick,
\* no purchase request and no listing query is made.
C16_FailedResolutionEndsRun ==
    [][ /\ ResolutionFailed'
            => /\ pc' \in {"done", "panic"}
               /\ ctx' = "none"
               /\ nBuy' = 0
               /\ leak_i' = -1
               /\ chan' = 0
        /\ ResolutionFailed
            => act' \notin {"timer", "tick", "recv", "build", "submit",
                            "listing", "helper"} ]_vars

\* the session request failed after identity and catalog were resolved
C16_Witness ==
    /\ act = "session"
    /\ outcome = "err"
    /\ pc = "done"
    /\ nBuy = 0
    /\ current_timestamp = 0

\* C17: a burst is left only in a step that returns true after a successful
\* submission, returns false after the sleep that follows its last attempt,
\* or returns an error holding the ProductExpired or the SystemBusy text;
\* cancellation is taken up only by a step of the countdown's select, never
\* by a step of a burst.
C17_BurstEndsOnlyByItsOwnResult ==
    [][ /\ (pc \in BurstPcs /\ pc' \notin BurstPcs)
            => \/ ret' = OkRes(TRUE) /\ last' = OkRes(TRUE)
               \/ /\ ret' = OkRes(FALSE)
                  /\ act' = "sleep"
                  /\ attempt + 1 = account.retry_times
               \/ /\ ret'.tag = "err"
                  /\ ContainsProductExpired(ret'.err)
                       \/ ContainsSystemBusy(ret'.err)
        /\ (cancelled' /\ ~cancelled) => (pc = "select" /\ act' = "cancel")
        /\ (pc \in BurstPcs) => (act' # "cancel" /\ cancelled' = cancelled) ]_vars

\* C18: the wait that follows an attempt of even index is 100 ms, whatever
\* the burst's cumulative time and smallest attempt duration are.
C18_EvenIntervalFixed ==
    (pc = "burst_sleep" /\ attempt % 2 = 0) => (retry_interval = 100)

\* the burst waits 100 ms after its third attempt (index 2), more than a
\* cycle of 5500 ms into the burst and with a smallest duration below the
\* initial 9999
C18_Witness ==
    /\ pc = "burst_sleep"
    /\ attempt = 2
    /\ retry_interval = 100
    /\ run_time > CycleMs + RETRY_INTERVAL_MS
    /\ min_time < MinTimeInit

\* C19: an immediate burst that returns an error holding the SystemBusy text
\* leads to the helper step; the helper step is taken only from there, ends
\* the run whether the helper ran or could not be started, without the
\* poller having been called; and after it no purchase request, no listing
\* query and no second helper step is made.
C19_BusyImmediateRunsHelperOnce ==
    [][ /\ (ctx = "now" /\ pc \in BurstPcs /\ ret'.tag = "err"
                /\ ContainsSystemBusy(ret'.err))
            => (pc' = "helper")
        /\ (pc = "helper")
            => (act' = "helper" /\ pc' \in {"done", "panic"} /\ leak_i' = -1)
        /\ (act' = "helper") => (pc = "helper" /\ ctx = "now" /\ busy)
        /\ (act = "helper")
            => act' \notin {"build", "submit", "listing", "helper", "tick"} ]_vars

\* the second attempt of an immediate burst got the SystemBusy error, the
\* helper ran and the run is over
C19_Witness ==
    /\ act = "helper"
    /\ pc = "done"
    /\ ctx = "now"
    /\ nBuy = 2
    /\ ret = ErrRes(SystemBusyErr)
    /\ leak_i = -1

\* C20: an order built with a non-empty attendee list that holds at least as
\* many slots as the burst's buy count is submitted, with the first buy_num
\* slots marked as used and every other slot as it was received; buy_num is
\* the poller's count for a burst pick_up_leaks started and the account's
\* count otherwise.
C20_MarksFirstBuyNum ==
    (/\ order.phase \in {"submitted", "panic"}
     /\ order.received # <<>>
     /\ order.buy_num <= Len(order.received))
        => /\ order.phase = "submitted"
           /\ order.buy_num
                = IF order.origin = "leaks" /\ order.leaks_num # 0
                    THEN order.leaks_num ELSE order.ticket_num
           /\ Len(order.viewerList) = Len(order.received)
           /\ \A i \in 1..Len(order.received) :
                order.viewerList[i] = (i <= order.buy_num \/ order.received[i])

\* C21: the burst a poll cycle starts is given the item_id and the sku_id of
\* the tier the scan matched, as that cycle's listing holds them: the pair
\* run resolves for that tier at the session step.
C21_PollerTargetsMatchedTier ==
    (target.caller = "leaks" /\ target.phase = "burst")
        => /\ target.idx + 1 \in 1..Len(target.sku_list)
           /\ target.sku_list[target.idx + 1].sku_salable
           /\ target.item_id = target.sku_list[target.idx + 1].item_id
           /\ target.sku_id = target.sku_list[target.idx + 1].sku_id

\* C22: a wait of a burst is entered only when a further attempt of that
\* burst is to follow it, and the end of a wait leads to that attempt; so a
\* burst whose attempts all fail returns false in the step in which its last
\* attempt failed, never at the end of a wait.
C22_WaitsOnlyBetweenAttempts ==
    [][ /\ (pc' = "burst_sleep") => (attempt' + 1 < account.retry_times)
        /\ (act' = "sleep") => (pc' = "buy_build" /\ ret' = NoRes)
        /\ (pc \in BurstPcs /\ ret' = OkRes(FALSE))
            => (act' \in {"build", "submit"} /\ nBuy' = account.retry_times) ]_vars

\* C23: whenever a burst has computed an interval (it is in the wait, or the
\* computation has panicked), the min_time it used is the smallest of the
\* durations of the attempts the burst has made so far.
C23_MinIsShortestAttempt ==
    (pc = "burst_sleep" \/ outcome = "overflow_panic") => (min_time = shortest)

\* run() has returned or the process has panicked
Terminal == pc \in {"done", "panic"}

\* C24: no computed wait is unbounded, and in every state that is not
\* terminal a step of the run can be taken; no run of the model is infinite
\* (the clock only advances, a countdown is over once it reaches its start,
\* and every loop counts up to its configured size), so this is termination.
C24_RunCanAlwaysGoOn ==
    /\ (pc = "burst_sleep") => ~IsWrapped(retry_interval)
    /\ ~Terminal => ENABLED Next

\* C25: in a tallied run a burst has made at most retry_times attempts, the
\* poller at most pick_up_leaks.times listing queries and at most one burst
\* per query, run has called at most one main burst when its decision read
\* a clock past sale-open and at most two otherwise, and the build_order
\* requests of the whole run number at most retry_times * (2 + times).
C25_RequestsBounded ==
    /\ nBuy <= account.retry_times
    /\ issued.queries <= account.leaks_times
    /\ issued.polled <= issued.queries
    /\ issued.mains <= (IF current_timestamp > StartTs THEN 1 ELSE 2)
    /\ issued.attempts
         <= account.retry_times * (issued.mains + issued.polled)
    /\ issued.attempts <= account.retry_times * (2 + account.leaks_times)

\* a countdown run has used its whole budget: two main bursts and a poller
\* burst in each of two cycles, every burst with both its attempts
C25_Witness ==
    /\ issued.on
    /\ account.retry_times = 2
    /\ account.leaks_times = 2
    /\ issued.mains = 2
    /\ issued.polled = 2
    /\ issued.attempts = 8

=============================================================================
